---- MODULE Spec2Model ----
(***************************************************************************)
(* Model of src/main.py: a static-file development server.                 *)
(*   - module load (PORT from the environment), main, show_network_info,   *)
(*     start_server (check_files, find_free_port, TCPServer, banner,       *)
(*     browser launch, serve_forever) and the process exit;                *)
(*   - CustomHTTPRequestHandler: end_headers (header injection) and do_GET *)
(*     (root-path rewrite) on top of the static-file base handler;         *)
(*   - the environment: other processes taking ports, files changing,      *)
(*     clients sending requests, the operator pressing Ctrl+C.             *)
(***************************************************************************)
EXTENDS Integers, Sequences, FiniteSets, TLC

VARIABLES
    environ,      \* os.environ restricted to the key "PORT" (value: a string)
    files,        \* names of the files present in the serving root
    occupied,     \* ports held by other processes
    pc,           \* position of the process in main()/start_server()
    lifecycle,    \* history of lifecycle states, last element is current
    advertised,   \* port printed by show_network_info ({} if none printed)
    port,         \* local `port` of start_server ({} while unassigned)
    candidate,    \* loop variable `port` of find_free_port
    probed,       \* ports on which a throwaway socket bind was attempted
    listenTried,  \* ports handed to socketserver.TCPServer, in order
    listener,     \* port the HTTP listener is bound to ({} if not bound)
    printed,      \* operator messages printed so far
    exchange,     \* the last request handled with its response ({} if none)
    exitStatus,   \* process exit status ({} while running)
    envBinds,     \* number of ports taken by other processes during the run
    fsChanges     \* number of file changes in the serving root during Serving

vars == <<environ, files, occupied, pc, lifecycle, advertised, port, candidate,
          probed, listenTried, listener, printed, exchange, exitStatus,
          envBinds, fsChanges>>

\* ---------------------------------------------------------------- bounds
MaxEnvBinds == 1
MaxFsChanges == 1

\* ------------------------------------------------------------- constants
DefaultPort == 8000
max_attempts == 10

\* The scan range reachable when PORT is unset.
ScanRange == DefaultPort .. (DefaultPort + max_attempts - 1)

\* Values of the PORT environment variable that are explored.
PortStrings ==
    { <<"8","0","0","3">>, <<"8","0">>, <<"0">>, <<"7","0","0","0","0">>,
      <<"-","1">>, <<"x">> }

\* Port the kernel hands out when the listener binds port 0.
EphemeralPorts == {49152}

FileUniverse == {"index.html", "logo.png"}
Methods == {"GET", "HEAD", "POST"}
Paths == {"/", "/index.html", "/logo.png", "/missing.css"}

Range(s) == {s[i] : i \in DOMAIN s}
State == lifecycle[Len(lifecycle)]

\* ------------------------------------------------------- int() conversion
DigitChars == <<"0","1","2","3","4","5","6","7","8","9">>
IsDigit(c) == \E i \in 1..10 : DigitChars[i] = c
DigitVal(c) == (CHOOSE i \in 1..10 : DigitChars[i] = c) - 1
IsDigits(s) == Len(s) > 0 /\ \A i \in 1..Len(s) : IsDigit(s[i])
IsIntLiteral(s) ==
    \/ IsDigits(s)
    \/ Len(s) > 1 /\ s[1] \in {"-", "+"} /\ IsDigits(Tail(s))

RECURSIVE DigitsValue(_)
DigitsValue(s) ==
    IF s = <<>> THEN 0
    ELSE 10 * DigitsValue(SubSeq(s, 1, Len(s) - 1)) + DigitVal(s[Len(s)])

int(s) ==
    IF s[1] = "-" THEN 0 - DigitsValue(Tail(s))
    ELSE IF s[1] = "+" THEN DigitsValue(Tail(s))
    ELSE DigitsValue(s)

\* Module-level PORT = int(os.environ.get('PORT', 8000)).
PORT == IF "PORT" \in DOMAIN environ THEN int(environ["PORT"]) ELSE DefaultPort

NoEnv == [k \in {} |-> <<>>]

Init ==
    /\ environ \in {NoEnv} \cup {[k \in {"PORT"} |-> s] : s \in PortStrings}
    /\ files \in SUBSET FileUniverse
    /\ occupied \in SUBSET ScanRange
    /\ pc = "import"
    /\ lifecycle = <<"Unstarted">>
    /\ advertised = {}
    /\ port = {}
    /\ candidate = 0
    /\ probed = <<>>
    /\ listenTried = <<>>
    /\ listener = {}
    /\ printed = {}
    /\ exchange = {}
    /\ exitStatus = {}
    /\ envBinds = 0
    /\ fsChanges = 0

\* ------------------------------------------------------------ module load
\* Line 15 runs at import: a non-numeric PORT raises ValueError before main.
LoadModule ==
    /\ pc = "import"
    /\ IF "PORT" \in DOMAIN environ /\ ~IsIntLiteral(environ["PORT"])
       THEN /\ pc' = "done"
            /\ printed' = printed \cup {"traceback"}
            /\ exitStatus' = {1}
            /\ lifecycle' = Append(lifecycle, "Stopped")
       ELSE /\ pc' = "main"
            /\ UNCHANGED <<printed, exitStatus, lifecycle>>
    /\ UNCHANGED <<environ, files, occupied, advertised, port, candidate,
                   probed, listenTried, listener, exchange, envBinds, fsChanges>>

\* ------------------------------------------------------ show_network_info
\* Prints the module-level PORT; a resolver failure prints a warning instead.
show_network_info ==
    /\ pc = "main"
    /\ \/ /\ advertised' = {PORT}
          /\ printed' = printed \cup {"network_info"}
       \/ /\ advertised' = advertised
          /\ printed' = printed \cup {"network_info_unavailable"}
    /\ pc' = "start_server"
    /\ UNCHANGED <<environ, files, occupied, lifecycle, port, candidate, probed,
                   listenTried, listener, exchange, exitStatus, envBinds,
                   fsChanges>>

\* ------------------------------------------------------------ check_files
LogoFiles == {"logo.png", "logo.svg", "logo.jpg", "logo.jpeg"}

\* Messages check_files prints for the current serving root.
check_files_messages ==
    IF "index.html" \notin files THEN {"index_missing"}
    ELSE IF files \cap LogoFiles = {} THEN {"logo_warning"}
    ELSE {}

\* Variant that prints the error for a missing index.html but carries on.
check_files_step_noabort ==
    /\ pc = "start_server"
    /\ printed' = printed \cup check_files_messages
    /\ pc' = "find_free_port"
    /\ UNCHANGED <<environ, files, occupied, lifecycle, advertised, port,
                   candidate, probed, listenTried, listener, exchange,
                   exitStatus, envBinds, fsChanges>>

\* start_server: `if not check_files(): return`.
check_files_step ==
    /\ pc = "start_server"
    /\ printed' = printed \cup check_files_messages
    /\ IF "index.html" \notin files
       THEN /\ pc' = "return"
            /\ lifecycle' = Append(lifecycle, "Stopped")
       ELSE /\ pc' = "find_free_port"
            /\ UNCHANGED lifecycle
    /\ UNCHANGED <<environ, files, occupied, advertised, port, candidate,
                   probed, listenTried, listener, exchange, exitStatus,
                   envBinds, fsChanges>>

\* --------------------------------------------------------- find_free_port
\* Variant that ignores the environment override.
PortInEnviron_ignored == FALSE

\* `if 'PORT' in os.environ`.
PortInEnviron == "PORT" \in DOMAIN environ

\* Variant whose scan range has one candidate more.
ScanEnd_plus1(start_port, attempts) == start_port + attempts + 1

\* End (exclusive) of range(start_port, start_port + max_attempts).
ScanEnd(start_port, attempts) == start_port + attempts

\* Variant in which the throwaway bind never fails.
ProbeBindSucceeds_always(p) == TRUE

\* s.bind(('0.0.0.0', port)) succeeds iff no other process holds the port.
ProbeBindSucceeds(p) == p \notin occupied

\* find_free_port(PORT): the call and the environment shortcut.
find_free_port_call ==
    /\ pc = "find_free_port"
    /\ IF PortInEnviron
       THEN /\ port' = {int(environ["PORT"])}
            /\ pc' = "TCPServer"
            /\ UNCHANGED candidate
       ELSE /\ candidate' = PORT
            /\ pc' = "scan"
            /\ UNCHANGED port
    /\ UNCHANGED <<environ, files, occupied, lifecycle, advertised, probed,
                   listenTried, listener, printed, exchange, exitStatus,
                   envBinds, fsChanges>>

\* One iteration of the scan loop: bind a throwaway socket to the candidate,
\* return it on success (the socket is closed on return), else move on.
ProbeBind ==
    /\ pc = "scan"
    /\ candidate < ScanEnd(PORT, max_attempts)
    /\ probed' = Append(probed, candidate)
    /\ IF ProbeBindSucceeds(candidate)
       THEN /\ port' = {candidate}
            /\ pc' = "TCPServer"
            /\ UNCHANGED candidate
       ELSE /\ candidate' = candidate + 1
            /\ UNCHANGED <<port, pc>>
    /\ UNCHANGED <<environ, files, occupied, lifecycle, advertised,
                   listenTried, listener, printed, exchange, exitStatus,
                   envBinds, fsChanges>>

\* The loop ran out: find_free_port raises OSError, start_server prints it
\* and returns.
ScanExhausted ==
    /\ pc = "scan"
    /\ candidate >= ScanEnd(PORT, max_attempts)
    /\ printed' = printed \cup {"port_exhausted"}
    /\ pc' = "return"
    /\ lifecycle' = Append(lifecycle, "Stopped")
    /\ UNCHANGED <<environ, files, occupied, advertised, port, candidate,
                   probed, listenTried, listener, exchange, exitStatus,
                   envBinds, fsChanges>>

\* Another process binds a port between the scan and the listener's bind.
OtherProcessBinds ==
    /\ pc = "TCPServer"
    /\ envBinds < MaxEnvBinds
    /\ \E p \in (ScanRange \cup (port \cap 1..65535)) \ occupied :
          occupied' = occupied \cup {p}
    /\ envBinds' = envBinds + 1
    /\ UNCHANGED <<environ, files, pc, lifecycle, advertised, port, candidate,
                   probed, listenTried, listener, printed, exchange,
                   exitStatus, fsChanges>>

\* ------------------------------------------------------- TCPServer((HOST, port))
\* The bind is impossible: port outside the socket API's range or in use.
BindImpossible(p) == p \notin 0..65535 \/ p \in occupied

\* Binding a privileged port may be refused, depending on the user.
BindMayBeRefused(p) == p \in 1..1023

\* Variant that answers a failed bind by running the port scan again.
TCPServerBindFails_rescan ==
    /\ pc = "TCPServer"
    /\ \E p \in port :
          /\ BindImpossible(p) \/ BindMayBeRefused(p)
          /\ listenTried' = Append(listenTried, p)
    /\ printed' = printed \cup {"error_starting"}
    /\ candidate' = DefaultPort
    /\ pc' = "scan"
    /\ UNCHANGED <<environ, files, occupied, lifecycle, advertised, port,
                   probed, listener, exchange, exitStatus, envBinds, fsChanges>>

\* The constructor raises; `except Exception` prints the error and returns.
TCPServerBindFails ==
    /\ pc = "TCPServer"
    /\ \E p \in port :
          /\ BindImpossible(p) \/ BindMayBeRefused(p)
          /\ listenTried' = Append(listenTried, p)
    /\ printed' = printed \cup {"error_starting"}
    /\ pc' = "return"
    /\ lifecycle' = Append(lifecycle, "Stopped")
    /\ UNCHANGED <<environ, files, occupied, advertised, port, candidate,
                   probed, listener, exchange, exitStatus, envBinds, fsChanges>>

\* The listener is bound; port 0 makes the kernel pick an ephemeral port.
TCPServerBindOk ==
    /\ pc = "TCPServer"
    /\ \E p \in port :
          /\ ~BindImpossible(p)
          /\ listenTried' = Append(listenTried, p)
          /\ IF p = 0
             THEN \E e \in EphemeralPorts : listener' = {e}
             ELSE listener' = {p}
    /\ pc' = "banner"
    /\ lifecycle' = Append(lifecycle, "Bound")
    /\ UNCHANGED <<environ, files, occupied, advertised, port, candidate,
                   probed, printed, exchange, exitStatus, envBinds, fsChanges>>

\* Banner with the server URL and the port for mobile access.
PrintBanner ==
    /\ pc = "banner"
    /\ printed' = printed \cup {"banner"}
    /\ pc' = "browser"
    /\ UNCHANGED <<environ, files, occupied, lifecycle, advertised, port,
                   candidate, probed, listenTried, listener, exchange,
                   exitStatus, envBinds, fsChanges>>

\* webbrowser.open: a failure is printed and is not fatal; then serve_forever.
OpenBrowser ==
    /\ pc = "browser"
    /\ \E msg \in {"browser_opening", "browser_failed"} :
          printed' = printed \cup {msg, "started"}
    /\ pc' = "serve_forever"
    /\ lifecycle' = Append(lifecycle, "Serving")
    /\ UNCHANGED <<environ, files, occupied, advertised, port, candidate,
                   probed, listenTried, listener, exchange, exitStatus,
                   envBinds, fsChanges>>

\* ------------------------------------------------- CustomHTTPRequestHandler
InjectedHeaders ==
    { <<"Access-Control-Allow-Origin", "*">>,
      <<"Access-Control-Allow-Methods", "GET, POST, OPTIONS">>,
      <<"Access-Control-Allow-Headers", "Content-Type">>,
      <<"X-Content-Type-Options", "nosniff">>,
      <<"X-Frame-Options", "DENY">>,
      <<"X-XSS-Protection", "1; mode=block">> }

\* Variant that injects the headers on successful responses only.
end_headers_okonly(code, buffer) ==
    IF code = 200 THEN buffer \cup InjectedHeaders ELSE buffer

\* end_headers: six send_header calls, then the base class flushes the buffer.
end_headers(code, buffer) == buffer \cup InjectedHeaders

\* Variant that leaves every path as it is.
RewritePath_none(path) == path

\* do_GET: `if self.path == '/': self.path = '/index.html'`.
RewritePath(path) == IF path = "/" THEN "/index.html" ELSE path

\* --- the static-file base handler the class delegates to
NoBody == [kind |-> "none", of |-> ""]
FileBody(name) == [kind |-> "file", of |-> name]
ListingBody == [kind |-> "listing", of |-> "/"]
ErrorBody(code) == [kind |-> "error", of |-> ToString(code)]

\* Headers send_response puts in the buffer.
StatusHeaders == { <<"Server", "SimpleHTTP">>, <<"Date", "now">> }

IndexPages == <<"index.html", "index.htm">>

IsDirectory(path) == path = "/"

\* translate_path for a path that names a file of the serving root.
FileOf(path) ==
    CASE path = "/index.html" -> "index.html"
      [] path = "/logo.png" -> "logo.png"
      [] OTHER -> "missing.css"

guess_type(name) == IF name = "logo.png" THEN "image/png" ELSE "text/html"

\* send_error: status line, error headers, end_headers; the body is left
\* out for HEAD.
send_error(code, command) ==
    [ status |-> code,
      headers |-> end_headers(code, StatusHeaders \cup
                     { <<"Connection", "close">>,
                       <<"Content-Type", "text/html;charset=utf-8">>,
                       <<"Content-Length", "error">> }),
      body |-> IF command = "HEAD" THEN NoBody ELSE ErrorBody(code) ]

\* The file branch of send_head: 404, 304 or 200 with the file as the body.
ServeFile(command, name, ims, root) ==
    IF name \notin root THEN send_error(404, command)
    ELSE IF ims
    THEN [ status |-> 304, headers |-> end_headers(304, StatusHeaders),
           body |-> NoBody ]
    ELSE [ status |-> 200,
           headers |-> end_headers(200, StatusHeaders \cup
                          { <<"Content-type", guess_type(name)>>,
                            <<"Content-Length", name>>,
                            <<"Last-Modified", name>> }),
           body |-> FileBody(name) ]

\* list_directory: a generated listing of the directory.
list_directory ==
    [ status |-> 200,
      headers |-> end_headers(200, StatusHeaders \cup
                     { <<"Content-type", "text/html; charset=utf-8">>,
                       <<"Content-Length", "listing">> }),
      body |-> ListingBody ]

\* send_head: a directory is answered with its index page when one exists,
\* otherwise with a listing; anything else is looked up as a file.
send_head(command, path, ims, root) ==
    IF IsDirectory(path)
    THEN IF \E i \in 1..Len(IndexPages) : IndexPages[i] \in root
         THEN LET i == CHOOSE i \in 1..Len(IndexPages) :
                          /\ IndexPages[i] \in root
                          /\ \A j \in 1..(i-1) : IndexPages[j] \notin root
              IN ServeFile(command, IndexPages[i], ims, root)
         ELSE list_directory
    ELSE ServeFile(command, FileOf(path), ims, root)

\* Base do_GET: send_head, then the body is copied to the client.
super_do_GET(path, ims, root) == send_head("GET", path, ims, root)

\* Base do_HEAD (not overridden): send_head, the body is not sent.
do_HEAD(path, ims, root) ==
    [send_head("HEAD", path, ims, root) EXCEPT !.body = NoBody]

\* CustomHTTPRequestHandler.do_GET.
do_GET(path, ims, root) == super_do_GET(RewritePath(path), ims, root)

\* self.path as the handler leaves it.
SelfPath(command, path) == IF command = "GET" THEN RewritePath(path) ELSE path

\* handle_one_request: dispatch on do_<command>; no such method gives 501.
handle_one_request(command, path, ims, root) ==
    IF command = "GET" THEN do_GET(path, ims, root)
    ELSE IF command = "HEAD" THEN do_HEAD(path, ims, root)
    ELSE send_error(501, command)

\* ---------------------------------------------------------- serve_forever
\* One connection is accepted and its request handled to completion.
HandleRequest ==
    /\ pc = "serve_forever"
    /\ \E command \in Methods, path \in Paths, ims \in BOOLEAN :
          exchange' = { [ method |-> command, path |-> path, ims |-> ims,
                          root |-> files,
                          selfPath |-> SelfPath(command, path),
                          response |->
                              handle_one_request(command, path, ims, files) ] }
    /\ printed' = printed \cup {"request_log"}
    /\ UNCHANGED <<environ, files, occupied, pc, lifecycle, advertised, port,
                   candidate, probed, listenTried, listener, exitStatus,
                   envBinds, fsChanges>>

\* An exception while a connection is handled: socketserver prints the
\* traceback and keeps serving.
HandlerException ==
    /\ pc = "serve_forever"
    /\ printed' = printed \cup {"handler_traceback"}
    /\ UNCHANGED <<environ, files, occupied, pc, lifecycle, advertised, port,
                   candidate, probed, listenTried, listener, exchange,
                   exitStatus, envBinds, fsChanges>>

\* An exception leaves serve_forever: the `with` block closes the listener,
\* `except Exception` prints the error, start_server returns.
ServeLoopError ==
    /\ pc = "serve_forever"
    /\ printed' = printed \cup {"error_starting"}
    /\ listener' = {}
    /\ pc' = "return"
    /\ lifecycle' = Append(lifecycle, "Stopped")
    /\ UNCHANGED <<environ, files, occupied, advertised, port, candidate,
                   probed, listenTried, exchange, exitStatus, envBinds,
                   fsChanges>>

\* Positions inside the try block of start_server.
InStartServer ==
    {"start_server", "find_free_port", "scan", "TCPServer", "banner",
     "browser", "serve_forever"}

\* Ctrl+C inside start_server: `except KeyboardInterrupt` prints the
\* shutdown message; a bound listener is closed by the `with` block.
Interrupt ==
    /\ pc \in InStartServer
    /\ printed' = printed \cup {"stopped_by_user"}
    /\ listener' = {}
    /\ pc' = "return"
    /\ lifecycle' = Append(lifecycle, "Stopped")
    /\ UNCHANGED <<environ, files, occupied, advertised, port, candidate,
                   probed, listenTried, exchange, exitStatus, envBinds,
                   fsChanges>>

\* Ctrl+C before start_server is entered: nothing catches it.
InterruptEarly ==
    /\ pc = "main"
    /\ printed' = printed \cup {"traceback"}
    /\ exitStatus' = {130}
    /\ pc' = "done"
    /\ lifecycle' = Append(lifecycle, "Stopped")
    /\ UNCHANGED <<environ, files, occupied, advertised, port, candidate,
                   probed, listenTried, listener, exchange, envBinds,
                   fsChanges>>

\* The developer adds or removes a file while the server is running.
FsChange ==
    /\ pc = "serve_forever"
    /\ fsChanges < MaxFsChanges
    /\ \E f \in FileUniverse :
          files' = IF f \in files THEN files \ {f} ELSE files \cup {f}
    /\ fsChanges' = fsChanges + 1
    /\ UNCHANGED <<environ, occupied, pc, lifecycle, advertised, port,
                   candidate, probed, listenTried, listener, printed, exchange,
                   exitStatus, envBinds>>

\* start_server has returned, main returns, the interpreter exits normally.
ProcessExit ==
    /\ pc = "return"
    /\ exitStatus' = {0}
    /\ pc' = "done"
    /\ UNCHANGED <<environ, files, occupied, lifecycle, advertised, port,
                   candidate, probed, listenTried, listener, printed, exchange,
                   envBinds, fsChanges>>

\* The process from module load to exit.
Next ==
    \/ LoadModule
    \/ show_network_info
    \/ check_files_step
    \/ find_free_port_call
    \/ ProbeBind
    \/ ScanExhausted
    \/ OtherProcessBinds
    \/ TCPServerBindFails
    \/ TCPServerBindOk
    \/ PrintBanner
    \/ OpenBrowser
    \/ HandlerException
    \/ ServeLoopError
    \/ Interrupt
    \/ InterruptEarly
    \/ ProcessExit

Spec == Init /\ [][Next]_vars

\* The serve loop on its own: the server has started on port 8000 with
\* PORT unset and no port taken, and clients send requests while the
\* developer edits the serving root.
ServingInit ==
    /\ environ = NoEnv
    /\ files \in {S \in SUBSET FileUniverse : "index.html" \in S}
    /\ occupied = {}
    /\ pc = "serve_forever"
    /\ lifecycle = <<"Unstarted", "Bound", "Serving">>
    /\ advertised = {DefaultPort}
    /\ port = {DefaultPort}
    /\ candidate = DefaultPort
    /\ probed = <<DefaultPort>>
    /\ listenTried = <<DefaultPort>>
    /\ listener = {DefaultPort}
    /\ printed = {"network_info", "banner", "browser_opening", "started"}
                    \cup (IF files \cap LogoFiles = {} THEN {"logo_warning"}
                          ELSE {})
    /\ exchange = {}
    /\ exitStatus = {}
    /\ envBinds = 0
    /\ fsChanges = 0

ServeNext ==
    \/ HandleRequest
    \/ HandlerException
    \/ FsChange

ServeSpec == ServingInit /\ [][ServeNext]_vars

\* ServingInit describes states the process reaches from Init.
ServingInitUnreached == ~ServingInit

\* =================================================================== claims

\* The six headers as the specification lists them.
SixHeaders ==
    { <<"Access-Control-Allow-Origin", "*">>,
      <<"Access-Control-Allow-Methods", "GET, POST, OPTIONS">>,
      <<"Access-Control-Allow-Headers", "Content-Type">>,
      <<"X-Content-Type-Options", "nosniff">>,
      <<"X-Frame-Options", "DENY">>,
      <<"X-XSS-Protection", "1; mode=block">> }

C2_Original ==
    \A e \in exchange :
        /\ e.path = "/" =>
              LET r == handle_one_request(e.method, "/index.html", e.ims, e.root)
              IN /\ e.response.status = r.status
                 /\ e.response.body = r.body
        /\ e.path # "/" => e.selfPath = e.path

\* C2 amended: a GET request for exactly "/" gets the status and body of a
\* GET for "/index.html" in every state of the serving root, and every path
\* other than "/" reaches static-file resolution unchanged.
C2_GetRootIsIndex ==
    \A e \in exchange :
        /\ (e.method = "GET" /\ e.path = "/") =>
              LET r == super_do_GET("/index.html", e.ims, e.root)
              IN /\ e.response.status = r.status
                 /\ e.response.body = r.body
                 /\ e.selfPath = "/index.html"
        /\ e.path # "/" => e.selfPath = e.path

\* C2 witness: GET / answered 404 after index.html was removed.
C2_Witness ==
    \E e \in exchange :
        /\ e.method = "GET"
        /\ e.path = "/"
        /\ "index.html" \notin e.root
        /\ e.response.status = 404

\* C3: with PORT set to P, find_free_port returns exactly P and no
\* throwaway socket is ever bound, whatever ports are occupied.
C3_EnvPortVerbatim ==
    "PORT" \in DOMAIN environ =>
        /\ probed = <<>>
        /\ port # {} => port = {int(environ["PORT"])}
        /\ (environ["PORT"] = <<"8","0","0","3">> /\ port # {}) => port = {8003}
        /\ (environ["PORT"] = <<"8","0">> /\ port # {}) => port = {80}

\* C3 witness: PORT=8003 resolved to 8003 although 8003 is occupied and
\* 8000 is free.
C3_Witness ==
    /\ "PORT" \in DOMAIN environ
    /\ environ["PORT"] = <<"8","0","0","3">>
    /\ port = {8003}
    /\ 8003 \in occupied
    /\ 8000 \notin occupied
    /\ probed = <<>>

\* C4: with PORT unset, 8000..8000+k-1 occupied and 8000+k free (k < 10),
\* find_free_port returns 8000+k after probing 8000, ..., 8000+k in that
\* order and nothing else; the scan fails only if no port of the range is
\* free.
C4_LowestFreePort ==
    "PORT" \notin DOMAIN environ =>
        /\ (pc = "TCPServer" /\ envBinds = 0) =>
              \E k \in 0..9 :
                  /\ port = {8000 + k}
                  /\ \A j \in 0..(k - 1) : 8000 + j \in occupied
                  /\ 8000 + k \notin occupied
                  /\ probed = [i \in 1..(k + 1) |-> 8000 + i - 1]
        /\ "port_exhausted" \in printed => \A q \in 8000..8009 : q \in occupied

\* C4 witness: 8000..8002 occupied, 8003 free, 8004 occupied, 8003 returned.
C4_Witness ==
    /\ "PORT" \notin DOMAIN environ
    /\ pc = "TCPServer"
    /\ envBinds = 0
    /\ {8000, 8001, 8002, 8004} \subseteq occupied
    /\ port = {8003}
    /\ probed = <<8000, 8001, 8002, 8003>>

\* A run that reached the end of start_server without Ctrl+C.
Uninterrupted == "stopped_by_user" \notin printed /\ "traceback" \notin printed

\* C5: with PORT unset and 8000..8009 all occupied when the scan runs (no
\* port was taken after it), resolution fails, the failure is printed, and
\* start_server returns without a listener ever being created.
C5_PortExhausted ==
    ("PORT" \notin DOMAIN environ /\ envBinds = 0
        /\ \A q \in 8000..8009 : q \in occupied) =>
        /\ port = {}
        /\ listenTried = <<>>
        /\ listener = {}
        /\ "Bound" \notin Range(lifecycle)
        /\ (pc \in {"return", "done"} /\ "index.html" \in files /\ Uninterrupted)
              => /\ "port_exhausted" \in printed
                 /\ probed = [i \in 1..10 |-> 8000 + i - 1]
                 /\ lifecycle = <<"Unstarted", "Stopped">>

\* C5 witness: the scan was exhausted and the process has exited.
C5_Witness ==
    /\ "port_exhausted" \in printed
    /\ pc = "done"
    /\ Len(probed) = 10
    /\ listenTried = <<>>

\* C6: with index.html absent at startup, the error is printed and no
\* socket is ever bound (no probe, no listener); the lifecycle goes from
\* Unstarted directly to Stopped.
C6_MissingIndexAborts ==
    /\ "index.html" \notin files =>
          /\ probed = <<>>
          /\ listenTried = <<>>
          /\ listener = {}
          /\ lifecycle \in {<<"Unstarted">>, <<"Unstarted", "Stopped">>}
          /\ (pc \in {"return", "done"} /\ Uninterrupted)
                => "index_missing" \in printed
    /\ "index_missing" \in printed =>
          /\ probed = <<>>
          /\ listenTried = <<>>
          /\ lifecycle = <<"Unstarted", "Stopped">>

\* C6 witness: the file check failed with port 8000 free and the process
\* has exited.
C6_Witness ==
    /\ "index_missing" \in printed
    /\ pc = "done"
    /\ 8000 \notin occupied
    /\ lifecycle = <<"Unstarted", "Stopped">>

\* C7 as stated: a stop by interrupt prints the shutdown message and exits
\* with status 0; a stop by an exception (serve loop, bind, startup) prints
\* an error and exits with a non-zero status.
C7_ExitStatus ==
    pc = "done" =>
        /\ "stopped_by_user" \in printed => exitStatus = {0}
        /\ "error_starting" \in printed => (exitStatus # {} /\ 0 \notin exitStatus)

\* C8 as stated: once resolved, the port is in 1..65535 and never changes.
C8_PortValidAndFixed ==
    [][ /\ port' # {} => port' \subseteq 1..65535
        /\ port # {} => port' = port ]_vars

\* C9: a failed listener bind (also when another process took the port
\* after the probe released it) is reported and leads directly to Stopped:
\* one bind attempt at most, no second scan, Serving never reached.
C9_BindFailureNoRetry ==
    /\ Len(listenTried) <= 1
    /\ Len(probed) = Cardinality(Range(probed))
    /\ (listenTried # <<>> /\ "Bound" \notin Range(lifecycle)) =>
          /\ lifecycle = <<"Unstarted", "Stopped">>
          /\ "error_starting" \in printed
          /\ listener = {}
          /\ pc \in {"return", "done"}
          /\ port = {listenTried[1]}

\* C9 witness: the scan returned a port, another process took it, and the
\* listener's bind failed.
C9_Witness ==
    /\ "PORT" \notin DOMAIN environ
    /\ envBinds = 1
    /\ probed # <<>>
    /\ port = {probed[Len(probed)]}
    /\ port \subseteq occupied
    /\ listenTried = <<probed[Len(probed)]>>
    /\ lifecycle = <<"Unstarted", "Stopped">>
    /\ pc = "done"

\* C10 as stated: in Serving, the port show_network_info advertised is the
\* port the listener is bound to.
C10_AdvertisedIsBound ==
    State = "Serving" => \A a \in advertised : listener = {a}

====
